---- MODULE Spec2Model ----
(***************************************************************************)
(* A model of the two stateful components of the MediSys portal front end: *)
(*                                                                         *)
(*   NotificationCenter (src/unnamed/part_003): the polling notification   *)
(*   inbox, with its acknowledge and clear-all handlers;                   *)
(*   FileUpload (src/unnamed/part_002): handleUpload and the CSV validator *)
(*   validateMediSysCSV it runs before the transfer.                       *)
(*                                                                         *)
(* Every action is one synchronous continuation of the JavaScript code     *)
(* (the code between two awaits): React applies the state updates of one   *)
(* continuation together, so no state "between" them is observable.        *)
(***************************************************************************)
EXTENDS Integers, Sequences, FiniteSets, Bags, TLC

VARIABLES
    \* ---- NotificationCenter ----
    phase,          \* "init" | "mounted" | "unmounted": the component instance's life
    userRole,       \* the userRole prop
    timer,          \* TRUE while the setInterval of the effect is active
    notifications,  \* useState([])   : sequence of notification records
    unreadCount,    \* useState(0)
    loading,        \* useState(false)
    error,          \* useState(null) : NoError or a message
    anchorEl,       \* useState(null) : TRUE while the popover is open
    polls,          \* pollNotifications calls in flight, counted by the await they are at
    acks,           \* acknowledgeNotification calls in flight
    clearing,       \* the clearAllNotifications call in flight, or NoClear
    elapsed,        \* ms since setInterval was called or the interval last fired
    last,           \* history: the response the last step delivered, if it delivered one
    \* ---- FileUpload ----
    upc,            \* where handleUpload is: "idle", "reading", "attributes", "transfer"
    file,           \* the text of the file the user drops on the zone
    validationResult,
    isUploading,    \* useState(false)
    uploadProgress, \* useState(0)
    snackbar,       \* useState({open:false, message:'', severity:'success'})
    ulast           \* history: the upload attempt in progress, or the last one

nvars == <<phase, userRole, timer, notifications, unreadCount, loading, error,
           anchorEl, polls, acks, clearing, elapsed, last>>
uvars == <<upc, file, validationResult, isUploading, uploadProgress, snackbar, ulast>>
vars == <<nvars, uvars>>

(***************************************************************************)
(* Bounds of the model.                                                    *)
(***************************************************************************)
MaxLen == 3     \* longest fetch response, and the number of notification ids
MaxCalls == 2   \* handler calls (a poll, a clicked acknowledge, a clear-all) in flight at once
MaxRows == 2    \* data rows of a generated CSV buffer

(***************************************************************************)
(* NotificationCenter: values.                                             *)
(***************************************************************************)
\* setInterval(pollNotifications, 30000): the delay, in ms.
PollInterval == 30000

Ids == 1..MaxLen

\* A record's receipt_handle: a token of its own, never equal to an id.
Handle(i) == <<"rh", i>>

\* One element of data.notifications.
Record(i) == [id |-> i, receipt_handle |-> Handle(i)]

SeqsUpTo(S, n) == UNION {[1..k -> S] : k \in 0..n}

Injective(s) == \A j, k \in 1..Len(s) : s[j] = s[k] => j = k

\* The arrays a GET /notifications can carry: any distinct ids in any order, and the
\* arrays that carry one id twice.
Responses ==
    {[k \in 1..Len(s) |-> Record(s[k])] : s \in {t \in SeqsUpTo(Ids, MaxLen) : Injective(t)}}
        \cup {<<Record(i), Record(i)>> : i \in Ids}

\* The parsed response bodies: with a notifications array, or without one.
Bodies ==
    {[isArray |-> TRUE, notifications |-> r] : r \in Responses}
        \cup {[isArray |-> FALSE, notifications |-> <<>>]}

Roles == {"healthcare", "lab"}

NoError == "null"
NoTokenMsg == "No valid authentication token found"
FetchFallbackMsg == "Failed to fetch notifications"
AckFailMsg == "Failed to acknowledge notification"
NoMessage == "undefined"

\* err.message of a rejected fetchAuthSession, get or body.json call.
RejectMessages == {"Network Error", "Unexpected token < in JSON at position 0", NoMessage}

\* A test that finds the words in no message.
MentionsAuth_Never(msg) == FALSE

\* err.message?.includes('authentication') || err.message?.includes('token')
MentionsAuth(msg) ==
    msg \in {NoTokenMsg, "Unexpected token < in JSON at position 0"}

\* err.message || 'Failed to fetch notifications'
FetchErrorText(msg) == IF msg = NoMessage THEN FetchFallbackMsg ELSE msg

NoPolls == [session |-> 0, get |-> 0]
PollsInFlight == polls.session + polls.get

\* No clearAll in flight. Of one in flight: how many calls it made, the records whose
\* deletion was rejected (failed), and those whose deletion was never sent (unsent).
NoClear == [active |-> FALSE, n |-> 0, sent |-> 0, ok |-> {}, failed |-> {}, unsent |-> {}]

\* acknowledgeNotification calls in flight: those a click started, those clearAll started.
ClickAcks == {a \in BagToSet(acks) : ~a.all}
AllAcks == {a \in BagToSet(acks) : a.all}

ClickCount == BagCardinality([a \in ClickAcks |-> acks[a]])

CallsInFlight == PollsInFlight + ClickCount + (IF clearing.active THEN 1 ELSE 0)

Event(op) ==
    [op |-> op, id |-> 0, data |-> <<>>, prev |-> <<>>, n |-> 0, msg |-> NoMessage,
     sent |-> 0, failed |-> {}, unsent |-> {}]

Max(a, b) == IF a >= b THEN a ELSE b

ListedIds(list) == {list[k].id : k \in 1..Len(list)}

(***************************************************************************)
(* NotificationCenter: the state updates of the handlers.                  *)
(***************************************************************************)
\* A merge of the fetched array into the list held, where the code replaces the list.
MergedList(body) ==
    notifications \o (IF body.isArray THEN body.notifications ELSE <<>>)

\* The list held kept when the body carries no array.
FetchedList_Keeping(body) == IF body.isArray THEN body.notifications ELSE notifications

\* pollNotifications, after data = await response.body.json()
FetchedList(body) == IF body.isArray THEN body.notifications ELSE <<>>

FetchedCount(body) == IF body.isArray THEN Len(body.notifications) ELSE 0

\* A removal of the record at the head of the list, whatever its id.
FilterOut_Head(prev, notificationId) == IF prev = <<>> THEN prev ELSE Tail(prev)

\* prev => prev.filter(notification => notification.id !== notificationId)
FilterOut(prev, notificationId) ==
    SelectSeq(prev, LAMBDA notification : notification.id # notificationId)

\* prev => Math.max(0, prev - 1)
Decrement(prev) == Max(0, prev - 1)

\* clearAllNotifications, after await Promise.all(acknowledgePromises)
ClearedList(c) == <<>>

\* The call pollNotifications() up to its first await: setLoading(true), setError(null),
\* then fetchAuthSession() is pending.
PollCall ==
    /\ loading' = TRUE
    /\ error' = NoError
    /\ polls' = [polls EXCEPT !.session = @ + 1]

\* The catch and finally blocks of pollNotifications.
PollCatch(msg) ==
    /\ error' = FetchErrorText(msg)
    /\ IF MentionsAuth(msg)
         THEN notifications' = <<>> /\ unreadCount' = 0
         ELSE UNCHANGED <<notifications, unreadCount>>
    /\ loading' = FALSE

(***************************************************************************)
(* NotificationCenter: the component's life.                               *)
(***************************************************************************)
NInit ==
    /\ phase = "init"
    /\ userRole = "lab"
    /\ timer = FALSE
    /\ notifications = <<>>
    /\ unreadCount = 0
    /\ loading = FALSE
    /\ error = NoError
    /\ anchorEl = FALSE
    /\ polls = NoPolls
    /\ acks = EmptyBag
    /\ clearing = NoClear
    /\ elapsed = 0
    /\ last = Event("other")

\* An effect that sets the interval and leaves the first fetch to its first tick.
RunEffect_NoInitialFetch(role) ==
    IF role = "healthcare"
      THEN /\ timer' = TRUE
           /\ elapsed' = 0
           /\ UNCHANGED <<loading, error, polls>>
      ELSE /\ timer' = FALSE
           /\ elapsed' = 0
           /\ UNCHANGED <<loading, error, polls>>

\* An effect without its cleanup: the interval set for 'healthcare' is never cleared.
RunEffect_KeepsTimer(role) ==
    IF role = "healthcare"
      THEN PollCall /\ timer' = TRUE /\ elapsed' = 0
      ELSE UNCHANGED <<timer, elapsed, loading, error, polls>>

\* The effect of lines 85-95, run for the role the component now has.
RunEffect(role) ==
    IF role = "healthcare"
      THEN PollCall /\ timer' = TRUE /\ elapsed' = 0
      ELSE /\ timer' = FALSE
           /\ elapsed' = 0
           /\ UNCHANGED <<loading, error, polls>>

\* ReportDashboard renders <NotificationCenter userRole={userRole} />.
Mount(role) ==
    /\ phase = "init"
    /\ phase' = "mounted"
    /\ userRole' = role
    /\ RunEffect(role)
    /\ last' = Event(IF role = "healthcare" THEN "start" ELSE "other")
    /\ UNCHANGED <<notifications, unreadCount, anchorEl, acks, clearing>>
    /\ UNCHANGED uvars

\* The userRole prop changes: the effect's cleanup clears the interval, the effect runs again.
SetRole(role) ==
    /\ phase = "mounted"
    /\ role # userRole
    /\ role = "healthcare" => CallsInFlight < MaxCalls
    /\ userRole' = role
    /\ RunEffect(role)
    /\ last' = Event(IF role = "healthcare" THEN "start" ELSE "stop")
    /\ UNCHANGED <<phase, notifications, unreadCount, anchorEl, acks, clearing>>
    /\ UNCHANGED uvars

\* The component is removed (sign-out, or a role that is neither lab nor healthcare): the
\* cleanup clears the interval and the instance's state is gone. React drops the state
\* updates of the calls still in flight, so the model stops following them here.
Unmount ==
    /\ phase = "mounted"
    /\ phase' = "unmounted"
    /\ timer' = FALSE
    /\ notifications' = <<>>
    /\ unreadCount' = 0
    /\ loading' = FALSE
    /\ error' = NoError
    /\ anchorEl' = FALSE
    /\ polls' = NoPolls
    /\ acks' = EmptyBag
    /\ clearing' = NoClear
    /\ elapsed' = 0
    /\ last' = Event(IF userRole = "healthcare" THEN "stop" ELSE "other")
    /\ UNCHANGED userRole
    /\ UNCHANGED uvars

\* The delay of the interval passes.
Elapse ==
    /\ timer
    /\ elapsed < PollInterval
    /\ elapsed' = PollInterval
    /\ last' = Event("other")
    /\ UNCHANGED <<phase, userRole, timer, notifications, unreadCount, loading, error,
                   anchorEl, polls, acks, clearing>>
    /\ UNCHANGED uvars

\* setInterval(pollNotifications, 30000) fires.
Tick ==
    /\ timer
    /\ elapsed = PollInterval
    /\ CallsInFlight < MaxCalls
    /\ PollCall
    /\ elapsed' = 0
    /\ last' = Event("tick")
    /\ UNCHANGED <<phase, userRole, timer, notifications, unreadCount, anchorEl,
                   acks, clearing>>
    /\ UNCHANGED uvars

(***************************************************************************)
(* pollNotifications (lines 37-82), one action per continuation.           *)
(***************************************************************************)
\* fetchAuthSession() resolved with an idToken: get(...) is called.
PollSessionOk ==
    /\ phase = "mounted"
    /\ polls.session > 0
    /\ polls' = [polls EXCEPT !.session = @ - 1, !.get = @ + 1]
    /\ last' = Event("other")
    /\ UNCHANGED <<phase, userRole, timer, elapsed, notifications, unreadCount, loading, error,
                   anchorEl, acks, clearing>>
    /\ UNCHANGED uvars

\* fetchAuthSession() resolved without tokens: throw new Error('No valid authentication
\* token found'), caught at line 70.
PollNoToken ==
    /\ phase = "mounted"
    /\ polls.session > 0
    /\ polls' = [polls EXCEPT !.session = @ - 1]
    /\ PollCatch(NoTokenMsg)
    /\ last' = [Event("poll_fail") EXCEPT !.msg = NoTokenMsg, !.prev = notifications]
    /\ UNCHANGED <<phase, userRole, timer, elapsed, anchorEl, acks, clearing>>
    /\ UNCHANGED uvars

\* fetchAuthSession() rejected (stage "session"), or get(...).response or
\* response.body.json() rejected (stage "get").
PollReject(stage, msg) ==
    /\ phase = "mounted"
    /\ polls[stage] > 0
    /\ polls' = [polls EXCEPT ![stage] = @ - 1]
    /\ PollCatch(msg)
    /\ last' = [Event("poll_fail") EXCEPT !.msg = msg, !.prev = notifications]
    /\ UNCHANGED <<phase, userRole, timer, elapsed, anchorEl, acks, clearing>>
    /\ UNCHANGED uvars

\* A continuation that drops the response when the role is no longer 'healthcare'.
PollJsonOk_Discarding(body) ==
    /\ phase = "mounted"
    /\ polls.get > 0
    /\ polls' = [polls EXCEPT !.get = @ - 1]
    /\ IF userRole = "healthcare"
         THEN notifications' = FetchedList(body) /\ unreadCount' = FetchedCount(body)
         ELSE UNCHANGED <<notifications, unreadCount>>
    /\ loading' = FALSE
    /\ last' = [Event("poll_ok") EXCEPT !.data = body.notifications,
                                        !.prev = notifications,
                                        !.n = IF body.isArray THEN 1 ELSE 0]
    /\ UNCHANGED <<phase, userRole, timer, elapsed, error, anchorEl, acks, clearing>>
    /\ UNCHANGED uvars

\* get(...).response and response.body.json() resolved with data: lines 62-68, then finally.
PollJsonOk(body) ==
    /\ phase = "mounted"
    /\ polls.get > 0
    /\ polls' = [polls EXCEPT !.get = @ - 1]
    /\ notifications' = FetchedList(body)
    /\ unreadCount' = FetchedCount(body)
    /\ loading' = FALSE
    /\ last' = [Event("poll_ok") EXCEPT !.data = body.notifications,
                                        !.prev = notifications,
                                        !.n = IF body.isArray THEN 1 ELSE 0]
    /\ UNCHANGED <<phase, userRole, timer, elapsed, error, anchorEl, acks, clearing>>
    /\ UNCHANGED uvars

(***************************************************************************)
(* acknowledgeNotification (lines 105-136).                                *)
(***************************************************************************)
\* The call up to its first await: fetchAuthSession() is pending.
AckCall(all, notificationId, receiptHandle) ==
    [all |-> all, id |-> notificationId, rh |-> receiptHandle, pc |-> "session"]

\* A click on the acknowledge button of a listed notification (line 123 of the JSX).
AckStart(k) ==
    /\ phase = "mounted"
    /\ userRole = "healthcare"
    /\ anchorEl
    /\ k \in 1..Len(notifications)
    /\ CallsInFlight < MaxCalls
    /\ acks' = acks (+) SetToBag({AckCall(FALSE, notifications[k].id,
                                          notifications[k].receipt_handle)})
    /\ last' = Event("other")
    /\ UNCHANGED <<phase, userRole, timer, elapsed, notifications, unreadCount, loading, error,
                   anchorEl, polls, clearing>>
    /\ UNCHANGED uvars

\* fetchAuthSession() resolved with an idToken: del(...) is called with the receipt handle.
AckSessionOk(a) ==
    /\ phase = "mounted"
    /\ BagIn(a, acks)
    /\ a.pc = "session"
    /\ acks' = (acks (-) SetToBag({a})) (+) SetToBag({[a EXCEPT !.pc = "del"]})
    /\ clearing' = IF a.all THEN [clearing EXCEPT !.sent = @ + 1] ELSE clearing
    /\ last' = Event("other")
    /\ UNCHANGED <<phase, userRole, timer, elapsed, notifications, unreadCount, loading,
                   error, anchorEl, polls>>
    /\ UNCHANGED uvars

\* What a settled acknowledgeNotification promise leaves in the clearAll that awaits it.
Settle(a, ok) ==
    IF a.all
      THEN IF ok THEN [clearing EXCEPT !.ok = @ \cup {Record(a.id)}]
           ELSE IF a.pc = "del"
             THEN [clearing EXCEPT !.failed = @ \cup {Record(a.id)}]
             ELSE [clearing EXCEPT !.unsent = @ \cup {Record(a.id)}]
      ELSE clearing

\* del(...).response resolved: lines 125-130.
AckDelOk(a) ==
    /\ phase = "mounted"
    /\ BagIn(a, acks)
    /\ a.pc = "del"
    /\ acks' = acks (-) SetToBag({a})
    /\ notifications' = FilterOut(notifications, a.id)
    /\ unreadCount' = Decrement(unreadCount)
    /\ clearing' = Settle(a, TRUE)
    /\ last' = [Event("ack_ok") EXCEPT !.id = a.id, !.prev = notifications,
                                       !.n = unreadCount]
    /\ UNCHANGED <<phase, userRole, timer, elapsed, loading, error, anchorEl, polls>>
    /\ UNCHANGED uvars

\* A catch block that calls acknowledgeNotification again for the same record.
AckFail_Retry(a) ==
    /\ phase = "mounted"
    /\ BagIn(a, acks)
    /\ acks' = (acks (-) SetToBag({a})) (+) SetToBag({AckCall(a.all, a.id, a.rh)})
    /\ error' = AckFailMsg
    /\ clearing' = clearing
    /\ last' = [Event("ack_fail") EXCEPT !.id = a.id]
    /\ UNCHANGED <<phase, userRole, timer, elapsed, notifications, unreadCount, loading,
                   anchorEl, polls>>
    /\ UNCHANGED uvars

\* No idToken, or fetchAuthSession() or del(...) rejected: the catch of line 132.
AckFail(a) ==
    /\ phase = "mounted"
    /\ BagIn(a, acks)
    /\ acks' = acks (-) SetToBag({a})
    /\ error' = AckFailMsg
    /\ clearing' = Settle(a, FALSE)
    /\ last' = [Event("ack_fail") EXCEPT !.id = a.id]
    /\ UNCHANGED <<phase, userRole, timer, elapsed, notifications, unreadCount, loading,
                   anchorEl, polls>>
    /\ UNCHANGED uvars

(***************************************************************************)
(* clearAllNotifications (lines 138-155).                                  *)
(***************************************************************************)
\* Only the first notification acknowledged.
MapAcks_FirstOnly(list) ==
    IF list = <<>> THEN EmptyBag
    ELSE SetToBag({AckCall(TRUE, Head(list).id, Head(list).receipt_handle)})

RECURSIVE MapAcks(_)
\* notifications.map(notification => acknowledgeNotification(notification.id,
\* notification.receipt_handle))
MapAcks(list) ==
    IF list = <<>> THEN EmptyBag
    ELSE SetToBag({AckCall(TRUE, Head(list).id, Head(list).receipt_handle)})
             (+) MapAcks(Tail(list))

\* A click on "Clear All" (shown when notifications.length > 0, disabled while loading):
\* every acknowledgeNotification call is made, then Promise.all is awaited.
ClearAllStart ==
    /\ phase = "mounted"
    /\ userRole = "healthcare"
    /\ anchorEl
    /\ Len(notifications) > 0
    /\ ~loading
    /\ ~clearing.active
    /\ CallsInFlight < MaxCalls
    /\ acks' = acks (+) MapAcks(notifications)
    /\ clearing' = [NoClear EXCEPT !.active = TRUE, !.n = Len(notifications)]
    /\ last' = Event("other")
    /\ UNCHANGED <<phase, userRole, timer, elapsed, notifications, unreadCount, loading, error,
                   anchorEl, polls>>
    /\ UNCHANGED uvars

\* Promise.all resolved (acknowledgeNotification never rejects): lines 147-149.
ClearAllDone ==
    /\ phase = "mounted"
    /\ clearing.active
    /\ AllAcks = {}
    /\ notifications' = ClearedList(clearing)
    /\ unreadCount' = 0
    /\ anchorEl' = FALSE
    /\ clearing' = NoClear
    /\ last' = [Event("clear_done") EXCEPT !.n = clearing.n, !.sent = clearing.sent,
                                           !.prev = notifications,
                                           !.failed = clearing.failed,
                                           !.unsent = clearing.unsent]
    /\ UNCHANGED <<phase, userRole, timer, elapsed, loading, error, polls, acks>>
    /\ UNCHANGED uvars

(***************************************************************************)
(* The popover and the error alert.                                        *)
(***************************************************************************)
\* handleClick: the bell button, disabled while loading; rendered for healthcare only.
HandleClick ==
    /\ phase = "mounted"
    /\ userRole = "healthcare"
    /\ ~loading
    /\ ~anchorEl
    /\ anchorEl' = TRUE
    /\ last' = Event("other")
    /\ UNCHANGED <<phase, userRole, timer, elapsed, notifications, unreadCount, loading, error,
                   polls, acks, clearing>>
    /\ UNCHANGED uvars

\* handleClose
HandleClose ==
    /\ phase = "mounted"
    /\ userRole = "healthcare"
    /\ anchorEl
    /\ anchorEl' = FALSE
    /\ last' = Event("other")
    /\ UNCHANGED <<phase, userRole, timer, elapsed, notifications, unreadCount, loading, error,
                   polls, acks, clearing>>
    /\ UNCHANGED uvars

\* The alert's onClose: setError(null).
DismissError ==
    /\ phase = "mounted"
    /\ userRole = "healthcare"
    /\ anchorEl
    /\ error # NoError
    /\ error' = NoError
    /\ last' = Event("other")
    /\ UNCHANGED <<phase, userRole, timer, elapsed, notifications, unreadCount, loading,
                   anchorEl, polls, acks, clearing>>
    /\ UNCHANGED uvars

NNext ==
    \/ \E role \in Roles : Mount(role)
    \/ \E role \in Roles : SetRole(role)
    \/ Unmount
    \/ Elapse
    \/ Tick
    \/ PollSessionOk
    \/ PollNoToken
    \/ \E stage \in {"session", "get"}, msg \in RejectMessages : PollReject(stage, msg)
    \/ \E body \in Bodies : PollJsonOk(body)
    \/ \E k \in 1..MaxLen : AckStart(k)
    \/ \E a \in BagToSet(acks) : AckSessionOk(a)
    \/ \E a \in BagToSet(acks) : AckDelOk(a)
    \/ \E a \in BagToSet(acks) : AckFail(a)
    \/ ClearAllStart
    \/ ClearAllDone
    \/ HandleClick
    \/ HandleClose
    \/ DismissError

(***************************************************************************)
(* FileUpload: text.  A string is the sequence of its characters, so that  *)
(* trim, split, toLowerCase and includes are computed as JavaScript does.  *)
(***************************************************************************)
col_patient_id ==
    <<"p", "a", "t", "i", "e", "n", "t", "_", "i", "d">>
col_first_name ==
    <<"f", "i", "r", "s", "t", "_", "n", "a", "m", "e">>
col_last_name ==
    <<"l", "a", "s", "t", "_", "n", "a", "m", "e">>
col_test_name ==
    <<"t", "e", "s", "t", "_", "n", "a", "m", "e">>
col_result_value ==
    <<"r", "e", "s", "u", "l", "t", "_", "v", "a", "l", "u", "e">>

\* Scenario A of the specification: a five-column header and one five-cell row.
ScenarioA ==
    <<"p", "a", "t", "i", "e", "n", "t", "_", "i", "d", ",", "f", "i", "r", "s", "t",
      "_", "n", "a", "m", "e", ",", "l", "a", "s", "t", "_", "n", "a", "m", "e", ",",
      "t", "e", "s", "t", "_", "n", "a", "m", "e", ",", "r", "e", "s", "u", "l", "t",
      "_", "v", "a", "l", "u", "e", "\n", "1", ",", "J", "a", "n", "e", ",", "D", "o",
      "e", ",", "G", "l", "u", "c", "o", "s", "e", ",", "9", "0">>

\* Scenario B of the specification: the header lacks test_name.
ScenarioB ==
    <<"p", "a", "t", "i", "e", "n", "t", "_", "i", "d", ",", "f", "i", "r", "s", "t",
      "_", "n", "a", "m", "e", ",", "l", "a", "s", "t", "_", "n", "a", "m", "e", ",",
      "r", "e", "s", "u", "l", "t", "_", "v", "a", "l", "u", "e", "\n", "1", ",", "J",
      "a", "n", "e", ",", "D", "o", "e", ",", "9", "0">>

UpperCase ==
    <<"A", "B", "C", "D", "E", "F", "G", "H", "I", "J", "K", "L", "M", "N", "O", "P",
      "Q", "R", "S", "T", "U", "V", "W", "X", "Y", "Z">>
LowerCase ==
    <<"a", "b", "c", "d", "e", "f", "g", "h", "i", "j", "k", "l", "m", "n", "o", "p",
      "q", "r", "s", "t", "u", "v", "w", "x", "y", "z">>

\* The white space String.prototype.trim removes, of the characters the buffers use.
IsSpace(c) == c \in {" ", "\t", "\n", "\r"}

RECURSIVE TrimStart(_)
TrimStart(s) == IF s # <<>> /\ IsSpace(Head(s)) THEN TrimStart(Tail(s)) ELSE s

RECURSIVE TrimEnd(_)
TrimEnd(s) ==
    IF s # <<>> /\ IsSpace(s[Len(s)]) THEN TrimEnd(SubSeq(s, 1, Len(s) - 1)) ELSE s

\* String.prototype.trim
Trim(s) == TrimEnd(TrimStart(s))

RECURSIVE Split(_, _)
\* String.prototype.split with a one-character separator: "".split(c) is [""].
Split(s, sep) ==
    IF \A i \in 1..Len(s) : s[i] # sep
      THEN <<s>>
      ELSE LET i == CHOOSE i \in 1..Len(s) : s[i] = sep /\ \A j \in 1..(i - 1) : s[j] # sep
           IN  <<SubSeq(s, 1, i - 1)>> \o Split(SubSeq(s, i + 1, Len(s)), sep)

ToLowerChar(c) ==
    IF \E i \in 1..Len(UpperCase) : UpperCase[i] = c
      THEN LowerCase[CHOOSE i \in 1..Len(UpperCase) : UpperCase[i] = c]
      ELSE c

\* String.prototype.toLowerCase
ToLowerCase(s) == [i \in 1..Len(s) |-> ToLowerChar(s[i])]

\* String.prototype.includes
Includes(s, w) == \E i \in 0..(Len(s) - Len(w)) : SubSeq(s, i + 1, i + Len(w)) = w

RECURSIVE Join(_, _)
\* Array.prototype.join
Join(parts, sep) ==
    IF parts = <<>> THEN <<>>
    ELSE IF Len(parts) = 1 THEN parts[1]
    ELSE parts[1] \o sep \o Join(Tail(parts), sep)

(***************************************************************************)
(* validateMediSysCSV (lines 110-241).                                     *)
(***************************************************************************)
EmptyFileMsg == "File is empty. Please upload a valid MediSys diagnostic CSV file."
TooFewLinesMsg == "CSV file must have at least a header row and one data row."
MissingColumnsMsg ==
    "Missing required columns: {missingColumns}. Please ensure this is a MediSys diagnostic CSV file."
NoPatientsMsg == "No valid patient records found in the CSV file."
NoTestsMsg == "No valid test results found in the CSV file."
ValidMsg == "Valid MediSys CSV format detected."
ReadErrorMsg == "Error reading file. Please try again."

\* The validationResult of a call that has none yet.
NoResult == [pending |-> TRUE]

\* A message: its text and, for MissingColumnsMsg, missingColumns.join(', ').
Message(text) == [text |-> text, columns |-> <<>>]

\* A rejection that drops its message.
Rejected_Silent(message) == [isValid |-> FALSE, message |-> Message("")]

\* resolve({isValid: false, message}): a rejection carries no counts.
Rejected(message) == [isValid |-> FALSE, message |-> message]

requiredColumns == <<col_patient_id, col_first_name, col_last_name, col_test_name,
                     col_result_value>>

\* content.split('\n').filter(line => line.trim())
Lines(content) == SelectSeq(Split(content, "\n"), LAMBDA line : Trim(line) # <<>>)

\* A header-only file let through: lines.length < 1.
TooFewLines_HeaderOnly(lines) == Len(lines) < 1

\* lines.length < 2
TooFewLines(lines) == Len(lines) < 2

\* Only the first missing column reported (a find where the code filters).
MissingColumns_First(headerLine) ==
    LET all == SelectSeq(requiredColumns,
                         LAMBDA col : ~Includes(headerLine, ToLowerCase(col)))
    IN  IF all = <<>> THEN <<>> ELSE <<all[1]>>

\* requiredColumns.filter(col => !headerLine.includes(col.toLowerCase()))
MissingColumns(headerLine) ==
    SelectSeq(requiredColumns, LAMBDA col : ~Includes(headerLine, ToLowerCase(col)))

\* Rows of exactly five cells dropped: cells.length > 5.
RowQualifies_Strict(cells) == Len(cells) > 5

\* cells.length >= 5
RowQualifies(cells) == Len(cells) >= 5

\* The test name looked for from the fourth column on: index > 2.
IsTestCell_FromTestName(cell, index) == cell # <<>> /\ Len(Trim(cell)) > 0 /\ index > 2

\* (cell, index) => cell && cell.trim().length > 0 && index > 5, index counted from 0
IsTestCell(cell, index) == cell # <<>> /\ Len(Trim(cell)) > 0 /\ index > 5

\* cells.find(...): the first cell that passes, or undefined (modelled as the empty string,
\* which is falsy as undefined is).
FindTestName(cells) ==
    IF \E k \in 1..Len(cells) : IsTestCell(cells[k], k - 1)
      THEN cells[CHOOSE k \in 1..Len(cells) :
                    /\ IsTestCell(cells[k], k - 1)
                    /\ \A j \in 1..(k - 1) : ~IsTestCell(cells[j], j - 1)]
      ELSE <<>>

RECURSIVE ScanRows(_, _, _)
\* The loop of lines 167-183 over dataLines, from patients and testCount.
ScanRows(dataLines, patients, testCount) ==
    IF dataLines = <<>>
      THEN [patients |-> patients, testCount |-> testCount]
      ELSE LET cells == Split(Head(dataLines), ",")
               patientId == Trim(cells[1])
               testName == FindTestName(cells)
           IN  IF RowQualifies(cells)
                 THEN ScanRows(Tail(dataLines),
                               IF patientId # <<>> THEN patients \cup {patientId}
                                                   ELSE patients,
                               IF testName # <<>> /\ Trim(testName) # <<>>
                                 THEN testCount + 1 ELSE testCount)
                 ELSE ScanRows(Tail(dataLines), patients, testCount)

\* The two last checks in the other order: the test count first.
ParseData_TestsFirst(lines) ==
    LET scan == ScanRows(Tail(lines), {}, 0)
    IN  IF scan.testCount = 0 THEN Rejected(Message(NoTestsMsg))
        ELSE IF Cardinality(scan.patients) = 0 THEN Rejected(Message(NoPatientsMsg))
        ELSE [isValid |-> TRUE, message |-> Message(ValidMsg),
              patientCount |-> Cardinality(scan.patients), testCount |-> scan.testCount]

\* A testCount kept outside the call: it starts from the count the call before left.
ParseData_Accumulating(lines) ==
    LET carried == IF ulast.before # NoResult /\ ulast.before.isValid
                     THEN ulast.before.testCount ELSE 0
        scan == ScanRows(Tail(lines), {}, carried)
    IN  IF Cardinality(scan.patients) = 0 THEN Rejected(Message(NoPatientsMsg))
        ELSE IF scan.testCount = 0 THEN Rejected(Message(NoTestsMsg))
        ELSE [isValid |-> TRUE, message |-> Message(ValidMsg),
              patientCount |-> Cardinality(scan.patients), testCount |-> scan.testCount]

\* Lines 161-212: the counts, and the outcome they give.
ParseData(lines) ==
    LET scan == ScanRows(Tail(lines), {}, 0)
    IN  IF Cardinality(scan.patients) = 0 THEN Rejected(Message(NoPatientsMsg))
        ELSE IF scan.testCount = 0 THEN Rejected(Message(NoTestsMsg))
        ELSE [isValid |-> TRUE, message |-> Message(ValidMsg),
              patientCount |-> Cardinality(scan.patients), testCount |-> scan.testCount]

\* The empty string only: the test without its trim.
IsEmpty_Untrimmed(content) == content = <<>>

\* !content || content.trim().length === 0
IsEmpty(content) == content = <<>> \/ Len(Trim(content)) = 0

\* reader.onload: what the promise resolves with for the text content.
validateMediSysCSV(content) ==
    IF IsEmpty(content)
      THEN Rejected(Message(EmptyFileMsg))
      ELSE LET lines == Lines(content)
           IN  IF TooFewLines(lines)
                 THEN Rejected(Message(TooFewLinesMsg))
                 ELSE LET headerLine == ToLowerCase(lines[1])
                          missingColumns == MissingColumns(headerLine)
                      IN  IF Len(missingColumns) > 0
                            THEN Rejected([text |-> MissingColumnsMsg,
                                           columns |-> Join(missingColumns, <<",", " ">>)])
                            ELSE ParseData(lines)

(***************************************************************************)
(* The files dropped on the upload zone.                                   *)
(***************************************************************************)
ToUpperChar(c) ==
    IF \E i \in 1..Len(LowerCase) : LowerCase[i] = c
      THEN UpperCase[CHOOSE i \in 1..Len(LowerCase) : LowerCase[i] = c]
      ELSE c

ColumnsOf(S) ==
    LET picked == SelectSeq(<<1, 2, 3, 4, 5>>, LAMBDA k : k \in S)
    IN  [j \in 1..Len(picked) |-> requiredColumns[picked[j]]]

\* A header line that names the columns S: comma-separated, the same in capitals, or
\* run together inside other text.
Header(S, style) ==
    CASE style = "plain" -> Join(ColumnsOf(S), <<",">>)
      [] style = "upper" ->
            LET h == Join(ColumnsOf(S), <<",">>) IN [i \in 1..Len(h) |-> ToUpperChar(h[i])]
      [] style = "glued" -> <<"x">> \o Join(ColumnsOf(S), <<>>) \o <<"x">>

Headers == {Header(S, style) : S \in SUBSET (1..5), style \in {"plain", "upper", "glued"}}

FullHeader == Header(1..5, "plain")

\* First cells: none, two ids, and the first id again inside blanks.
FirstCells == {<<>>, <<"1">>, <<"2">>, <<" ", "1", " ">>}

\* The cells after the first: rows of 4, 5, 6, 7 and 8 cells, the cells from index 6 on
\* empty, blank or filled.
RowTails ==
    LET a == <<"a">>
        x == <<"x">>
    IN  { <<a, a, a>>,
          <<a, a, a, a>>,
          <<a, a, a, a, x>>,
          <<a, a, a, a, a, <<>> >>,
          <<a, a, a, a, a, <<" ">> >>,
          <<a, a, a, a, a, x>>,
          <<a, a, a, a, a, <<>>, x>> }

Row(first, tail) == Join(<<first>> \o tail, <<",">>)

\* The data lines: every tail behind the first id, every first cell before a row of five
\* cells, and an absent, a first and a second id before a row of seven.
Rows ==
    {Row(<<"1">>, tail) : tail \in RowTails}
        \cup {Row(first, <<<<"a">>, <<"a">>, <<"a">>, <<"a">> >>) : first \in FirstCells}
        \cup {Row(first, <<<<"a">>, <<"a">>, <<"a">>, <<"a">>, <<"a">>, <<"x">> >>) :
                  first \in FirstCells \ {<<" ", "1", " ">>}}

GoodRow == Row(<<"1">>, <<<<"a">>, <<"a">>, <<"a">>, <<"a">>, <<"a">>, <<"x">> >>)

RawBuffers ==
    { <<>>, <<" ">>, <<"\n">>, <<" ", "\n", "\t", "\r", "\n">>, <<"x">>,
      <<"\n", "x", "\n">>, <<"x", "\n", " ", "\n">>, <<"x", "\n", "y">> }

Buffers ==
    RawBuffers
      \cup {ScenarioA, ScenarioB}
      \cup Headers
      \cup {Join(<<h, GoodRow>>, <<"\n">>) : h \in Headers}
      \cup {Join(<<FullHeader>> \o rows, <<"\n">>) : rows \in SeqsUpTo(Rows, MaxRows)}
      \cup {Join(<<FullHeader, GoodRow>>, <<"\r", "\n">>),
            Join(<<FullHeader, <<" ">> >>, <<"\n">>),
            Join(<<<<>>, <<" ">>, FullHeader, <<>>, GoodRow, <<>> >>, <<"\n">>)}

(***************************************************************************)
(* handleUpload (lines 40-108), one action per continuation.               *)
(***************************************************************************)
UploadFailedMsg == "Upload failed. Please try again."
UploadedMsg ==
    "Report uploaded successfully! Found {patientCount} patients with {testCount} total tests. Processing will begin shortly..."

\* The history of one upload attempt; before is the outcome of the last call of
\* validateMediSysCSV before this attempt that read the file.
Attempt(f) ==
    [file |-> f, read |-> "pending", result |-> NoResult, before |-> NoResult,
     transfer |-> FALSE, outcome |-> "running", scheduled |-> FALSE]

\* The snackbar: the text is the message's template (the column list or the counts it
\* carries are those of validationResult).
Snack(open, text, severity) == [open |-> open, message |-> text, severity |-> severity]

\* FileUpload as rendered, before any drop.
UIdle ==
    /\ upc = "idle"
    /\ validationResult = NoResult
    /\ isUploading = FALSE
    /\ uploadProgress = 0
    /\ snackbar = Snack(FALSE, "", "success")
    /\ ulast = Attempt(<<>>)

\* FileUpload and the file its user holds.
UInit == UIdle /\ file \in Buffers

\* err.message || 'Upload failed. Please try again.'
UploadErrorText(msg) == IF msg = NoMessage THEN UploadFailedMsg ELSE msg

\* The validation result ignored.
Proceeds_Always(result) == TRUE

\* if (!validationResult.isValid) throw: whether handleUpload goes on after validation.
Proceeds(result) == result.isValid

\* The catch block without the finally block: the spinner is left on.
CatchFinally_NoFinally(msg, outcome) ==
    /\ snackbar' = Snack(TRUE, UploadErrorText(msg), "error")
    /\ upc' = "idle"
    /\ validationResult' = NoResult
    /\ ulast' = [ulast EXCEPT !.outcome = outcome]
    /\ UNCHANGED <<file, isUploading, uploadProgress>>

\* The catch block (lines 97-103) and the finally block (lines 104-107).
CatchFinally(msg, outcome) ==
    /\ snackbar' = Snack(TRUE, UploadErrorText(msg), "error")
    /\ isUploading' = FALSE
    /\ uploadProgress' = 0
    /\ upc' = "idle"
    /\ validationResult' = NoResult
    /\ ulast' = [ulast EXCEPT !.outcome = outcome]
    /\ UNCHANGED file

\* onDrop with one accepted file (the zone is disabled unless userRole is 'lab' and no
\* upload runs): handleUpload up to the pending reader.readAsText(file).
Drop ==
    /\ userRole = "lab"
    /\ ~isUploading
    /\ upc = "idle"
    /\ isUploading' = TRUE
    /\ uploadProgress' = 0
    /\ upc' = "reading"
    /\ ulast' = [Attempt(file) EXCEPT
                     !.before = IF ulast.read = "load" THEN ulast.result ELSE ulast.before]
    /\ UNCHANGED <<file, validationResult, snackbar>>
    /\ UNCHANGED nvars

\* The promise of validateMediSysCSV resolved with result: lines 47-52.
Validated(result, read) ==
    IF Proceeds(result)
      THEN /\ validationResult' = result
           /\ upc' = "attributes"
           /\ ulast' = [ulast EXCEPT !.read = read, !.result = result]
           /\ UNCHANGED <<file, isUploading, uploadProgress, snackbar>>
      ELSE /\ snackbar' = Snack(TRUE, result.message.text, "error")
           /\ isUploading' = FALSE
           /\ uploadProgress' = 0
           /\ upc' = "idle"
           /\ validationResult' = NoResult
           /\ ulast' = [ulast EXCEPT !.read = read, !.result = result,
                                     !.outcome = "rejected"]
           /\ UNCHANGED file

\* reader.onload
ReadLoaded ==
    /\ upc = "reading"
    /\ Validated(validateMediSysCSV(file), "load")
    /\ UNCHANGED nvars

\* reader.onerror
ReadFailed ==
    /\ upc = "reading"
    /\ Validated(Rejected(Message(ReadErrorMsg)), "error")
    /\ UNCHANGED nvars

\* fetchUserAttributes() resolved: uploadData(...) is called.
AttributesOk ==
    /\ upc = "attributes"
    /\ upc' = "transfer"
    /\ ulast' = [ulast EXCEPT !.transfer = TRUE]
    /\ UNCHANGED <<file, validationResult, isUploading, uploadProgress, snackbar>>
    /\ UNCHANGED nvars

\* fetchUserAttributes() rejected.
AttributesFailed(msg) ==
    /\ upc = "attributes"
    /\ CatchFinally(msg, "attributes_failed")
    /\ UNCHANGED nvars

\* onProgress: Math.round((transferredBytes / totalBytes) * 100)
Progress(percent) ==
    /\ upc = "transfer"
    /\ uploadProgress' = percent
    /\ UNCHANGED <<upc, file, validationResult, isUploading, snackbar, ulast>>
    /\ UNCHANGED nvars

\* uploadData(...).result resolved: lines 82-96, then finally.
TransferOk ==
    /\ upc = "transfer"
    /\ snackbar' = Snack(TRUE, UploadedMsg, "success")
    /\ isUploading' = FALSE
    /\ uploadProgress' = 0
    /\ upc' = "idle"
    /\ validationResult' = NoResult
    /\ ulast' = [ulast EXCEPT !.outcome = "uploaded", !.scheduled = TRUE]
    /\ UNCHANGED file
    /\ UNCHANGED nvars

\* uploadData(...).result rejected.
TransferFailed(msg) ==
    /\ upc = "transfer"
    /\ CatchFinally(msg, "transfer_failed")
    /\ UNCHANGED nvars

\* handleCloseSnackbar
HandleCloseSnackbar ==
    /\ snackbar.open
    /\ snackbar' = [snackbar EXCEPT !.open = FALSE]
    /\ UNCHANGED <<upc, file, validationResult, isUploading, uploadProgress, ulast>>
    /\ UNCHANGED nvars

UNext ==
    \/ Drop
    \/ ReadLoaded
    \/ ReadFailed
    \/ AttributesOk
    \/ \E msg \in {"Network Error", NoMessage} : AttributesFailed(msg)
    \/ \E percent \in {0, 50, 100} : Progress(percent)
    \/ TransferOk
    \/ \E msg \in {"Network Error", NoMessage} : TransferFailed(msg)
    \/ HandleCloseSnackbar

\* The notification reconciler alone: FileUpload stays idle, no file in hand.
Init == NInit /\ UIdle /\ file = <<>>

\* FileUpload alone, as ReportDashboard renders it for a lab user.
UploadInit == NInit /\ UInit

Spec == Init /\ [][NNext]_vars

UploadSpec == UploadInit /\ [][UNext]_vars

\* FileUpload where every pending promise settles: the FileReader fires load or error,
\* fetchUserAttributes() and uploadData(...).result resolve or reject.
UploadLiveSpec ==
    /\ UploadInit
    /\ [][UNext]_vars
    /\ WF_vars(ReadFailed \/ ReadLoaded)
    /\ WF_vars(AttributesOk \/ \E msg \in {"Network Error", NoMessage} : AttributesFailed(msg))
    /\ WF_vars(TransferOk \/ \E msg \in {"Network Error", NoMessage} : TransferFailed(msg))

(***************************************************************************)
(* Claims about the notification reconciler.                               *)
(***************************************************************************)

\* C1: in every state, unreadCount equals the length of the notifications list.
C1_CountMirrorsList == unreadCount = Len(notifications)

\* C2: when clearAllNotifications ran on three notifications and exactly one of the three
\* upstream deletions failed, the list it leaves holds exactly the record whose deletion
\* failed.
C2_ClearAllKeepsFailed ==
    (/\ last.op = "clear_done"
     /\ last.n = 3
     /\ last.unsent = {}
     /\ Cardinality(last.failed) = 1)
        => notifications = <<CHOOSE r \in last.failed : TRUE>>

\* C4: at most one notification fetch (GET /notifications) is in flight at any time.
C4_OneFetchInFlight == polls.get <= 1

\* C5: an acknowledgeNotification call that completes (deletion accepted or failed) for an
\* id that is not in the notifications list changes neither notifications nor unreadCount.
C5_AckAbsentIsNoOp ==
    [][(/\ last'.op \in {"ack_ok", "ack_fail"}
        /\ last'.id \notin ListedIds(notifications))
          => (notifications' = notifications /\ unreadCount' = unreadCount)]_vars

\* C9: right after a successful fetch that carried an array is applied, the notifications
\* list is exactly the fetched sequence, in its order, whatever list an earlier fetch left.
C9_FetchReplaces ==
    (last.op = "poll_ok" /\ last.n = 1) => notifications = last.data

\* C9's case: a non-empty list left by an earlier fetch, then a fetch of a different
\* sequence that lacks one of its elements.
C9_Witness ==
    /\ last.op = "poll_ok"
    /\ last.n = 1
    /\ last.prev # <<>>
    /\ last.data # <<>>
    /\ last.prev # last.data
    /\ \E k \in 1..Len(last.prev) : last.prev[k].id \notin ListedIds(last.data)
    /\ notifications = last.data

\* The records of list whose id is not id, by position.
Others(list, id) == {k \in 1..Len(list) : list[k].id # id}

\* C11: when an acknowledgeNotification call for an id that is in the notifications list
\* has its deletion accepted, the list loses the record with that id and keeps every other
\* record in its order, and unreadCount goes down by exactly one, stopping at zero.
C11_AckRemovesOne ==
    [][(/\ last'.op = "ack_ok"
        /\ last'.id \in ListedIds(notifications))
          => LET keep == Others(notifications, last'.id)
             IN  /\ Len(notifications') = Cardinality(keep)
                 /\ \A k \in keep :
                        notifications'[Cardinality({j \in keep : j <= k})] = notifications[k]
                 /\ last'.id \notin ListedIds(notifications')
                 /\ unreadCount' >= 0
                 /\ unreadCount' = IF unreadCount > 0 THEN unreadCount - 1 ELSE 0]_vars

\* C11's case: the middle one of three listed records was acknowledged; the two others
\* remain, in their order, and the count went from 3 to 2.
C11_Witness ==
    /\ last.op = "ack_ok"
    /\ Len(last.prev) = 3
    /\ last.prev[2].id = last.id
    /\ last.n = 3
    /\ notifications = <<last.prev[1], last.prev[3]>>
    /\ unreadCount = 2

\* C12: when an acknowledgeNotification call fails (no idToken, or the session or the
\* deletion request rejected), notifications and unreadCount are unchanged, error is set,
\* and the call leaves no new request behind it: it is not tried again.
C12_AckFailureLeavesState ==
    [][last'.op = "ack_fail"
          => /\ notifications' = notifications
             /\ unreadCount' = unreadCount
             /\ error' # NoError
             /\ \A b \in BagToSet(acks') : CopiesIn(b, acks') <= CopiesIn(b, acks)
             /\ BagCardinality(acks') = BagCardinality(acks) - 1]_vars

\* C12's case: the deletion of a listed record failed; the record is still listed, the
\* error is shown and nothing is in flight.
C12_Witness ==
    /\ last.op = "ack_fail"
    /\ last.id \in ListedIds(notifications)
    /\ unreadCount = Len(notifications)
    /\ error = AckFailMsg
    /\ acks = EmptyBag

\* C13: right after a poll failed because the session held no idToken, notifications is
\* empty, unreadCount is 0 and error is set.
C13_NoCredentialClears ==
    (last.op = "poll_fail" /\ last.msg = NoTokenMsg)
        => (notifications = <<>> /\ unreadCount = 0 /\ error # NoError)

\* C13's case: the list held records when the poll found no idToken.
C13_Witness ==
    /\ last.op = "poll_fail"
    /\ last.msg = NoTokenMsg
    /\ Len(last.prev) >= 2
    /\ notifications = <<>>
    /\ unreadCount = 0
    /\ error = NoTokenMsg

\* C14: a poll that fails for a reason other than a missing credential (the network is
\* down, the server's reply is not JSON, an error without a message) leaves notifications
\* and unreadCount as they were and sets error.
C14_OtherFailureKeepsList ==
    [][(last'.op = "poll_fail" /\ last'.msg # NoTokenMsg)
          => /\ notifications' = notifications
             /\ unreadCount' = unreadCount
             /\ error' # NoError]_vars

\* C16: right after a fetch response is applied, no two entries of notifications have the
\* same id.
C16_NoDuplicateIds ==
    last.op = "poll_ok"
        => \A j, k \in 1..Len(notifications) :
               notifications[j].id = notifications[k].id => j = k

\* C17: a fetch is started (pollNotifications passes its guard) and a GET /notifications
\* request is sent only while userRole is 'healthcare'.
C17_FetchOnlyForHealthcare ==
    [][(polls'.session > polls.session \/ polls'.get > polls.get)
          => userRole' = "healthcare"]_vars

\* The records a list holds.
Range(list) == {list[k] : k \in 1..Len(list)}

\* The component is mounted with the role 'healthcare': the reconciler is polling.
Polling == phase = "mounted" /\ userRole = "healthcare"

\* C21: the wholesale update of clearAllNotifications removes a record from notifications
\* only if clearAllNotifications sent a deletion for that record and the deletion
\* succeeded; a record a poll brought in the meantime stays.
C21_ClearAllRemovesDeletedOnly ==
    [][last'.op = "clear_done"
          => \A r \in Range(notifications) \ Range(notifications') : r \in clearing.ok]_vars

\* C22: right after a successful fetch is applied, error is null.
C22_FetchSuccessClearsError == last.op = "poll_ok" => error = NoError

\* C23, as stated: a response applied while userRole is not 'healthcare' changes neither
\* notifications nor unreadCount.
C23_LateResponseDiscarded ==
    [][(last'.op = "poll_ok" /\ userRole # "healthcare")
          => (notifications' = notifications /\ unreadCount' = unreadCount)]_vars

\* C23, amended: a response that arrives after the role changed away from 'healthcare',
\* the component still mounted, is applied as any other; once the component is unmounted
\* no response is applied at all.
C23_LateResponseApplied ==
    /\ (last.op = "poll_ok" /\ userRole # "healthcare")
          => (notifications = last.data /\ unreadCount = Len(last.data))
    /\ phase = "unmounted"
          => (polls = NoPolls /\ notifications = <<>> /\ unreadCount = 0)

\* C23's case: the role is 'lab' and the response of a fetch started under 'healthcare'
\* has just replaced a different list.
C23_Witness ==
    /\ last.op = "poll_ok"
    /\ phase = "mounted"
    /\ userRole = "lab"
    /\ ~timer
    /\ last.data # <<>>
    /\ last.prev # last.data
    /\ notifications = last.data

\* C24: whenever the reconciler is not polling (no component, or a role other than
\* 'healthcare'), no interval is set and notifications is empty.
C24_IdleIsEmpty == ~Polling => (~timer /\ notifications = <<>>)

\* C25: when the component gets the role 'healthcare', one fetch starts in that step, with
\* the whole interval still to run before the first tick; every tick comes 30 s (30000 ms)
\* after the interval was set or last fired and starts one fetch; nothing else starts one.
C25_ImmediateFetchThenInterval ==
    [][/\ last'.op = "start"
             => (/\ polls'.session = polls.session + 1
                 /\ polls'.get = polls.get
                 /\ timer'
                 /\ elapsed' = 0)
       /\ last'.op = "tick"
             => (/\ elapsed = 30 * 1000
                 /\ elapsed' = 0
                 /\ polls'.session = polls.session + 1)
       /\ polls'.session > polls.session => last'.op \in {"start", "tick"}]_vars

\* C25's case: the interval has fired, a full delay after the start, and its fetch is in
\* flight.
C25_Witness ==
    /\ last.op = "tick"
    /\ Polling
    /\ timer
    /\ elapsed = 0
    /\ polls.session >= 1

\* C26: the step that ends polling (the role changes away from 'healthcare', or the
\* component is unmounted) clears the interval; a role change leaves notifications and
\* unreadCount as they are (on unmount they go with the component); and while the
\* reconciler is not polling no fetch is started.
C26_StopCancelsTimer ==
    [][/\ (Polling /\ ~Polling')
             => (/\ last'.op = "stop"
                 /\ ~timer'
                 /\ phase' = "mounted"
                       => (notifications' = notifications /\ unreadCount' = unreadCount))
       /\ ~Polling' => polls'.session <= polls.session]_vars

\* C26's case: the role has just changed to 'lab' with notifications held.
C26_Witness ==
    /\ last.op = "stop"
    /\ phase = "mounted"
    /\ userRole = "lab"
    /\ ~timer
    /\ Len(notifications) >= 2
    /\ unreadCount = Len(notifications)

\* The acknowledgeNotification calls of clearAllNotifications in flight, with their number.
AllAcksInFlight == BagCardinality([a \in AllAcks |-> acks[a]])

\* C28, as stated: when clearAllNotifications is done it has sent one deletion for each
\* notification that was in the list when it was called.
C28_OneDeletionEach == last.op = "clear_done" => last.sent = last.n

\* C28, amended: clearAllNotifications starts one acknowledgeNotification call for each
\* notification in the list, all of them before any settles, each with the record's
\* receipt handle; each call sends at most one deletion, and exactly one when its session
\* holds an idToken; the list is emptied only when every call has settled.
C28_OneCallEach ==
    /\ \A a \in AllAcks : a.rh = Record(a.id).receipt_handle
    /\ (/\ clearing.active
        /\ clearing.sent = 0
        /\ clearing.ok \cup clearing.failed \cup clearing.unsent = {})
          => AllAcksInFlight = clearing.n
    /\ clearing.active => clearing.sent <= clearing.n
    /\ last.op = "clear_done"
          => (/\ AllAcks = {}
              /\ last.sent <= last.n
              /\ last.unsent = {} => last.sent = last.n
              /\ notifications = <<>>)

\* C28's case: clearAllNotifications ran on three notifications; one call found no
\* idToken and sent nothing, the two others sent their deletion.
C28_Witness ==
    /\ last.op = "clear_done"
    /\ last.n = 3
    /\ last.sent = 2
    /\ Cardinality(last.unsent) = 1
    /\ notifications = <<>>

\* C29: a fetch whose body carries no notifications array sets notifications to the empty
\* list and unreadCount to 0 and leaves error as it is.
C29_NoArrayEmptiesList ==
    [][(last'.op = "poll_ok" /\ last'.n = 0)
          => (notifications' = <<>> /\ unreadCount' = 0 /\ error' = error)]_vars

\* C29's case: the list held records when the body without an array came.
C29_Witness ==
    /\ last.op = "poll_ok"
    /\ last.n = 0
    /\ Len(last.prev) >= 2
    /\ notifications = <<>>
    /\ unreadCount = 0
    /\ error = NoError

(***************************************************************************)
(* Claims about the record validator and handleUpload.                     *)
(***************************************************************************)
\* The position of the last line break of buf before position i, 0 when there is none.
LineBreakBefore(buf, i) ==
    LET breaks == {j \in 1..(i - 1) : buf[j] = "\n"}
    IN  IF breaks = {} THEN 0 ELSE CHOOSE j \in breaks : \A m \in breaks : m <= j

\* The number of lines of buf that are not empty after trimming: the line breaks of buf
\* (and its start) that have a character other than white space before the next break.
NonEmptyLineCount(buf) ==
    LET breaks == {0} \cup {j \in 1..Len(buf) : buf[j] = "\n"}
        next(b) == LET later == {c \in breaks : c > b}
                   IN  IF later = {} THEN Len(buf) + 1
                       ELSE CHOOSE c \in later : \A m \in later : c <= m
    IN  Cardinality({b \in breaks : \E j \in (b + 1)..(next(b) - 1) : ~IsSpace(buf[j])})

\* The first line of buf that is not empty after trimming (buf has one).
FirstNonEmptyLine(buf) ==
    LET i == CHOOSE i \in 1..Len(buf) : ~IsSpace(buf[i]) /\ \A j \in 1..(i - 1) : IsSpace(buf[j])
        after == {j \in (i + 1)..Len(buf) : buf[j] = "\n"}
        end == IF after = {} THEN Len(buf) ELSE (CHOOSE j \in after : \A m \in after : j <= m) - 1
    IN  SubSeq(buf, LineBreakBefore(buf, i) + 1, end)

\* The word w occurs in h.
OccursIn(w, h) ==
    \E off \in 0..(Len(h) - Len(w)) : \A k \in 1..Len(w) : h[off + k] = w[k]

\* The schema names that do not occur in the header of buf, letter case ignored.
MissingNames(buf) ==
    LET line == FirstNonEmptyLine(buf)
        header == [i \in 1..Len(line) |-> ToLowerChar(line[i])]
    IN  {requiredColumns[k] : k \in {j \in 1..Len(requiredColumns) :
                                        ~OccursIn(requiredColumns[j], header)}}

\* The names a rejection's column list holds.
ListedNames(columns) ==
    LET parts == Split(columns, ",") IN {Trim(parts[k]) : k \in 1..Len(parts)}

\* The outcome recorded for the file of the last upload attempt, once it was read.
WasValidated == ulast.read = "load"

\* The cells of the data rows of buf: the non-empty lines after the header.
RowCells(buf) ==
    LET rows == Tail(Lines(buf)) IN [k \in 1..Len(rows) |-> Split(rows[k], ",")]

\* The subjects of buf: the distinct non-empty trimmed first cells of rows of 5 cells or more.
Subjects(buf) ==
    LET cells == RowCells(buf)
    IN  {Trim(cells[k][1]) : k \in {j \in 1..Len(cells) : Len(cells[j]) >= 5}} \ {<<>>}

\* The entries of buf: the rows of 5 cells or more with a non-blank cell at a 0-based
\* index greater than 5.
Entries(buf) ==
    LET cells == RowCells(buf)
    IN  {k \in 1..Len(cells) :
            /\ Len(cells[k]) >= 5
            /\ \E j \in 1..Len(cells[k]) : j - 1 > 5 /\ Trim(cells[k][j]) # <<>>}

\* C3, as stated: validating Scenario A yields an accepted outcome with subjectCount 1
\* and entryCount 1.
C3_ScenarioAAccepted ==
    (WasValidated /\ ulast.file = ScenarioA)
        => (/\ ulast.result.isValid
            /\ ulast.result.patientCount = 1
            /\ ulast.result.testCount = 1)

\* C3, amended: validating Scenario A yields a rejection with the "no valid test results"
\* reason (its only row has five cells, none at an index greater than 5).
C3_ScenarioARejected ==
    (WasValidated /\ ulast.file = ScenarioA)
        => (~ulast.result.isValid /\ ulast.result.message.text = NoTestsMsg)

C3_Witness ==
    /\ WasValidated
    /\ ulast.file = ScenarioA
    /\ ulast.outcome = "rejected"
    /\ Subjects(ulast.file) = {<<"1">>}
    /\ Entries(ulast.file) = {}

\* C6, as stated: every buffer with fewer than 2 non-empty lines is rejected with the
\* "missing header or data rows" reason.
C6_FewLinesRejected ==
    (WasValidated /\ NonEmptyLineCount(ulast.file) < 2)
        => (~ulast.result.isValid /\ ulast.result.message.text = TooFewLinesMsg)

\* C6, amended: every buffer with exactly one non-empty line is rejected with the "missing
\* header or data rows" reason, and every buffer with none with the "empty file" reason.
C6_OneLineRejected ==
    WasValidated
        => LET count == NonEmptyLineCount(ulast.file)
           IN  /\ count = 1
                     => (~ulast.result.isValid /\ ulast.result.message.text = TooFewLinesMsg)
               /\ count = 0
                     => (~ulast.result.isValid /\ ulast.result.message.text = EmptyFileMsg)

C6_Witness ==
    /\ WasValidated
    /\ NonEmptyLineCount(ulast.file) = 1
    /\ \E i \in 1..Len(ulast.file) : ulast.file[i] = "\n"
    /\ MissingNames(ulast.file) = {}
    /\ ulast.result.message.text = TooFewLinesMsg

\* C7: a buffer with 2 non-empty lines or more whose header lacks a schema name is
\* rejected with a reason that lists exactly the names the header lacks; a header that
\* holds all five is never rejected for missing columns.
C7_MissingColumnsListed ==
    (WasValidated /\ NonEmptyLineCount(ulast.file) >= 2)
        => LET missing == MissingNames(ulast.file)
           IN  IF missing # {}
                 THEN /\ ~ulast.result.isValid
                      /\ ulast.result.message.text = MissingColumnsMsg
                      /\ ListedNames(ulast.result.message.columns) = missing
                 ELSE ulast.result.message.text # MissingColumnsMsg

C7_Witness ==
    /\ WasValidated
    /\ NonEmptyLineCount(ulast.file) >= 2
    /\ Cardinality(MissingNames(ulast.file)) = 2
    /\ \E i \in 1..Len(ulast.file) : \E k \in 1..Len(UpperCase) : ulast.file[i] = UpperCase[k]
    /\ ulast.result.message.text = MissingColumnsMsg

\* C8: an accepted outcome's subjectCount is the number of subjects of the buffer and its
\* entryCount the number of its entries.
C8_CountsOfAccepted ==
    (WasValidated /\ ulast.result.isValid)
        => (/\ ulast.result.patientCount = Cardinality(Subjects(ulast.file))
            /\ ulast.result.testCount = Cardinality(Entries(ulast.file)))

\* C8's case: an accepted file with a row of exactly five cells that brought a subject of
\* its own and no entry.
C8_Witness ==
    /\ WasValidated
    /\ ulast.result.isValid
    /\ \E k \in 1..Len(RowCells(ulast.file)) : Len(RowCells(ulast.file)[k]) = 5
    /\ ulast.result.patientCount = 2
    /\ ulast.result.testCount = 1

\* C10: uploadData is called only after validateMediSysCSV returned an accepted outcome
\* for the same file; an attempt whose validation rejected never transfers.
C10_TransferOnlyAfterAccepted ==
    /\ (ulast.transfer \/ upc = "transfer")
          => (/\ ulast.read = "load"
              /\ ulast.result = validateMediSysCSV(ulast.file)
              /\ ulast.result.isValid)
    /\ ulast.outcome = "rejected" => ~ulast.transfer

C10_Witness ==
    /\ upc = "transfer"
    /\ ulast.transfer
    /\ validationResult.isValid
    /\ validationResult = validateMediSysCSV(file)

\* validateMediSysCSV has resolved for the file of the last attempt, read or not.
HasOutcome == ulast.read \in {"load", "error"}

\* The outcome r holds the two counts.
HasCounts(r) == {"patientCount", "testCount"} \subseteq DOMAIN r

\* The outcome r holds a reason: a message that is not empty.
HasReason(r) == "message" \in DOMAIN r /\ r.message.text # ""

\* C15: every outcome of validateMediSysCSV is either a rejection that carries a reason and
\* two counts of zero, or an acceptance that carries no reason and two counts >= 0.
C15_OutcomeShapes ==
    HasOutcome
        => LET r == ulast.result
           IN  IF r.isValid
                 THEN ~HasReason(r) /\ HasCounts(r) /\ r.patientCount >= 0 /\ r.testCount >= 0
                 ELSE HasReason(r) /\ HasCounts(r) /\ r.patientCount = 0 /\ r.testCount = 0

\* C18: a buffer is rejected with the empty-file reason exactly when it is empty or holds
\* white space only.
C18_EmptyFileRejected ==
    WasValidated
        => ((~ulast.result.isValid /\ ulast.result.message.text = EmptyFileMsg)
               <=> \A i \in 1..Len(ulast.file) : IsSpace(ulast.file[i]))

\* C18's case: a buffer of blanks, tabs and line breaks was rejected as empty.
C18_Witness ==
    /\ WasValidated
    /\ Len(ulast.file) >= 2
    /\ \E i \in 1..Len(ulast.file) : ulast.file[i] = "\n"
    /\ \E i \in 1..Len(ulast.file) : ulast.file[i] = " "
    /\ \A i \in 1..Len(ulast.file) : IsSpace(ulast.file[i])
    /\ ulast.outcome = "rejected"
    /\ ulast.result.message.text = EmptyFileMsg

Reasons ==
    {EmptyFileMsg, TooFewLinesMsg, MissingColumnsMsg, NoPatientsMsg, NoTestsMsg, ReadErrorMsg}

\* C20: validateMediSysCSV resolves with an outcome for every buffer, and an outcome that
\* is not an acceptance is a rejection with a reason that is not empty; handleUpload shows
\* that reason and never its fallback text.
C20_AlwaysAnOutcome ==
    /\ HasOutcome
          => /\ "isValid" \in DOMAIN ulast.result
             /\ ulast.result.isValid \in BOOLEAN
             /\ ~ulast.result.isValid
                   => (HasReason(ulast.result) /\ ulast.result.message.text \in Reasons)
    /\ ulast.outcome = "rejected"
          => (snackbar.message = ulast.result.message.text /\ snackbar.message # UploadFailedMsg)

\* C20's case: a buffer that is no CSV at all (two lines of one letter) was rejected with
\* the reason that names the columns it lacks.
C20_Witness ==
    /\ WasValidated
    /\ ulast.file = <<"x", "\n", "y">>
    /\ ~ulast.result.isValid
    /\ ulast.result.message.text = MissingColumnsMsg
    /\ snackbar.open
    /\ snackbar.message = MissingColumnsMsg

\* The outcome r is a rejection with the reason text.
RejectedFor(r, text) == ~r.isValid /\ r.message.text = text

\* C27: the first check that fails, in the order empty buffer, fewer than 2 non-empty
\* lines, missing columns, no subjects, no entries, alone decides the reason; a buffer
\* that passes them all is accepted.
C27_FirstFailingCheckDecides ==
    WasValidated
        => LET buf == ulast.file
               r == ulast.result
           IN  IF \A i \in 1..Len(buf) : IsSpace(buf[i]) THEN RejectedFor(r, EmptyFileMsg)
               ELSE IF NonEmptyLineCount(buf) < 2 THEN RejectedFor(r, TooFewLinesMsg)
               ELSE IF MissingNames(buf) # {} THEN RejectedFor(r, MissingColumnsMsg)
               ELSE IF Subjects(buf) = {} THEN RejectedFor(r, NoPatientsMsg)
               ELSE IF Entries(buf) = {} THEN RejectedFor(r, NoTestsMsg)
               ELSE r.isValid

\* C27's case: a buffer of one line, a header that lacks columns, was rejected for its
\* missing rows and not for its columns.
C27_Witness ==
    /\ WasValidated
    /\ NonEmptyLineCount(ulast.file) = 1
    /\ Cardinality(MissingNames(ulast.file)) >= 2
    /\ RejectedFor(ulast.result, TooFewLinesMsg)

\* C30: every upload attempt ends with isUploading false and uploadProgress 0, whatever
\* its outcome, and onSuccess is scheduled only for an attempt whose transfer succeeded.
C30_AttemptEnds ==
    /\ isUploading ~> (~isUploading /\ uploadProgress = 0)
    /\ [](ulast.scheduled => ulast.outcome = "uploaded")
    /\ [](~isUploading => (uploadProgress = 0 /\ upc = "idle"))

\* C30's case: an attempt whose transfer failed has ended, the spinner is off and no
\* refresh is scheduled.
C30_Witness ==
    /\ ulast.outcome = "transfer_failed"
    /\ ulast.transfer
    /\ ~ulast.scheduled
    /\ ~isUploading
    /\ uploadProgress = 0
    /\ snackbar.severity = "error"

====
